---- MODULE Spec2Model ----
(***************************************************************************)
(* Model of main.py: a FastAPI backend that logs in against Twitch with    *)
(* the OAuth2 authorization-code flow, keeps the token in one MongoDB      *)
(* collection and proxies two Helix lookups (games by name, videos by      *)
(* game) with the stored bearer token.                                     *)
(*                                                                         *)
(* A request occupies a slot r \in Reqs.  A handler is `async def`: its    *)
(* steps are the stretches of code between two awaits, and the steps of    *)
(* different requests interleave.  The awaits are the store operations     *)
(* (find_one in the get_token dependency, update_one in callback); the     *)
(* outbound HTTP call of a handler is made inside one step.                *)
(*                                                                         *)
(* Python values: a dict is a record whose DOMAIN is its set of keys, a    *)
(* list is a sequence, None of a string-typed value is the string None,    *)
(* None of Optional[Token] is NoToken.                                     *)
(***************************************************************************)
EXTENDS Integers, Sequences, FiniteSets, TLC

(* ------------------------------ bounds --------------------------------- *)
MaxReqs == 2        \* requests in flight at the same time
MaxGames == 2       \* longest match list the games endpoint answers with

Reqs == 1..MaxReqs

(* --------------------------- configuration ----------------------------- *)
CLIENT_ID == "client-id"
CLIENT_SECRET == "client-secret"
REDIRECT_URI == "http://backend/callback"
FRONTEND_URL == "http://frontend"

(* ------------------------- python primitives --------------------------- *)
None == "None"
NoToken == << >>
EmptyDict == << >>

\* dict.get(key, default)
Get(d, key, default) == IF key \in DOMAIN d THEN d[key] ELSE default

\* (mutant) `is not None` in place of the truth value
Truthy_is_not_None(v) == v # None

\* truth value of an Optional[str]: None and "" are falsy
Truthy(v) == v # None /\ v # ""

\* dict with one more key (params['after'] = after)
SetKey(d, key, v) ==
    [k \in DOMAIN d \cup {key} |-> IF k = key THEN v ELSE d[k]]

(* ------------------------------ responses ------------------------------ *)
\* raise HTTPException(status_code=..., detail=...)
HTTPException(status_code, detail) ==
    [status_code |-> status_code, body |-> [detail |-> detail]]

\* JSONResponse(content=...), and a dict returned by a handler
JSONResponse(content) == [status_code |-> 200, body |-> content]

\* RedirectResponse(url): starlette's default status is 307
RedirectResponse(url) == [status_code |-> 307, body |-> [location |-> url]]

\* an exception no handler catches: the server answers 500
InternalServerError ==
    [status_code |-> 500, body |-> [text |-> "Internal Server Error"]]

(* ------------------------------ token store ---------------------------- *)
\* tokens_collection.find_one({}): the first document, None when empty
find_one(coll) == IF Len(coll) = 0 THEN NoToken ELSE coll[1]

\* get_token(): Token(**token_data) keeps the two fields of the document
get_token(coll) ==
    LET token_data == find_one(coll)
    IN  IF token_data # NoToken
        THEN [access_token |-> token_data.access_token,
              refresh_token |-> Get(token_data, "refresh_token", None)]
        ELSE NoToken

\* (mutant) insert_one in place of the upsert
update_one_insert(coll, fields) == Append(coll, fields)

\* tokens_collection.update_one({}, {"$set": fields}, upsert=True):
\* the empty filter matches the first document, whose named fields are set;
\* when nothing matches, a document holding the fields is inserted.
update_one(coll, fields) ==
    IF Len(coll) = 0
    THEN << fields >>
    ELSE [coll EXCEPT ![1] =
            [k \in DOMAIN coll[1] \cup DOMAIN fields |->
                IF k \in DOMAIN fields THEN fields[k] ELSE coll[1][k]]]

(* -------------------------------- state -------------------------------- *)
VARIABLES
    tokens_collection,  \* db.tokens: sequence of documents, natural order
    pc,                 \* pc[r]: where request r stands
    request,            \* request[r]: [route, query] of the request in r
    token,              \* token[r]: result of Depends(get_token)
    sent,               \* sent[r]: outbound HTTP requests r has issued
    received,           \* received[r]: answer to r's outbound request
    response            \* response[r]: the response of the endpoint

vars == << tokens_collection, pc, request, token, sent, received, response >>

Init ==
    /\ tokens_collection = << >>
    /\ pc = [r \in Reqs |-> "idle"]
    /\ request = [r \in Reqs |-> << >>]
    /\ token = [r \in Reqs |-> NoToken]
    /\ sent = [r \in Reqs |-> << >>]
    /\ received = [r \in Reqs |-> << >>]
    /\ response = [r \in Reqs |-> << >>]

\* the handler of r ends with response resp
Respond(r, resp) ==
    /\ response' = [response EXCEPT ![r] = resp]
    /\ pc' = [pc EXCEPT ![r] = "done"]

(* ------------------------------- GET / --------------------------------- *)
home(r) ==
    /\ pc[r] = "idle"
    /\ request' = [request EXCEPT ![r] = [route |-> "/", query |-> EmptyDict]]
    /\ Respond(r, JSONResponse(
            [message |-> "Search video games streams on Twitch."]))
    /\ UNCHANGED << tokens_collection, token, sent, received >>

(* ----------------------------- GET /login ------------------------------ *)
auth_url ==
    "https://id.twitch.tv/oauth2/authorize"
        \o "?client_id=" \o CLIENT_ID
        \o "&redirect_uri=" \o REDIRECT_URI
        \o "&response_type=code"
        \o "&scope=user:read:email"

login(r) ==
    /\ pc[r] = "idle"
    /\ request' = [request EXCEPT
                     ![r] = [route |-> "/login", query |-> EmptyDict]]
    /\ Respond(r, RedirectResponse(auth_url))
    /\ UNCHANGED << tokens_collection, token, sent, received >>

(* ---------------------------- GET /callback ---------------------------- *)
\* the request arrives and the dependency get_token reads the store
callback_get_token(r, query) ==
    /\ pc[r] = "idle"
    /\ request' = [request EXCEPT
                     ![r] = [route |-> "/callback", query |-> query]]
    /\ token' = [token EXCEPT ![r] = get_token(tokens_collection)]
    /\ pc' = [pc EXCEPT ![r] = "callback"]
    /\ UNCHANGED << tokens_collection, sent, received, response >>

\* the form-encoded POST to the token endpoint
token_request(code) ==
    [method |-> "POST",
     url |-> "https://id.twitch.tv/oauth2/token",
     data |-> [client_id |-> CLIENT_ID,
               client_secret |-> CLIENT_SECRET,
               code |-> code,
               grant_type |-> "authorization_code",
               redirect_uri |-> REDIRECT_URI]]

\* (mutant) the save is reached whatever the token endpoint answered
exchange_failed_never(token_json) == FALSE

\* `if not access_token`
exchange_failed(token_json) ==
    ~Truthy(Get(token_json, "access_token", None))

\* (mutant) the description of the token endpoint is dropped
exchange_error_fallback_only(token_json) ==
    HTTPException(400, "Failed to obtain access token: "
                           \o "No error description provided")

\* the HTTPException of a failed exchange
exchange_error(token_json) ==
    LET error_description ==
            Get(token_json, "error_description",
                "No error description provided")
    IN  HTTPException(400, "Failed to obtain access token: "
                               \o error_description)

\* the body up to the await of update_one; token_json is what the token
\* endpoint answers
callback_exchange(r, token_json) ==
    /\ pc[r] = "callback"
    /\ LET code == Get(request[r].query, "code", None)
       IN  IF ~Truthy(code)
           THEN /\ Respond(r, HTTPException(400, "No code provided"))
                /\ UNCHANGED << sent, received >>
           ELSE /\ sent' = [sent EXCEPT
                              ![r] = Append(@, token_request(code))]
                /\ received' = [received EXCEPT ![r] = token_json]
                /\ IF exchange_failed(token_json)
                   THEN Respond(r, exchange_error(token_json))
                   ELSE /\ pc' = [pc EXCEPT ![r] = "save"]
                        /\ UNCHANGED response
    /\ UNCHANGED << tokens_collection, request, token >>

\* (mutant) refresh_token is set only when the exchange returned one
token_fields_partial(token_json) ==
    IF "refresh_token" \in DOMAIN token_json
    THEN [access_token |-> Get(token_json, "access_token", None),
          refresh_token |-> token_json.refresh_token]
    ELSE [access_token |-> Get(token_json, "access_token", None)]

\* the fields of "$set": both are set, refresh_token to None when absent
token_fields(token_json) ==
    [access_token |-> Get(token_json, "access_token", None),
     refresh_token |-> Get(token_json, "refresh_token", None)]

\* update_one is applied, then the redirect to the frontend
callback_save(r) ==
    /\ pc[r] = "save"
    /\ tokens_collection' =
          update_one(tokens_collection, token_fields(received[r]))
    /\ Respond(r, RedirectResponse(FRONTEND_URL))
    /\ UNCHANGED << request, token, sent, received >>

(* ------------------------ GET /api/get-game-id ------------------------- *)
get_game_id_get_token(r, query) ==
    /\ pc[r] = "idle"
    /\ request' = [request EXCEPT
                     ![r] = [route |-> "/api/get-game-id", query |-> query]]
    /\ token' = [token EXCEPT ![r] = get_token(tokens_collection)]
    /\ pc' = [pc EXCEPT ![r] = "get_game_id"]
    /\ UNCHANGED << tokens_collection, sent, received, response >>

\* headers of both proxy calls; token.access_token raises when token is None
bearer_headers(tok) ==
    [ClientID |-> CLIENT_ID,
     Authorization |-> "Bearer " \o tok.access_token]

games_request(tok, game_name) ==
    [method |-> "GET",
     url |-> "https://api.twitch.tv/helix/games",
     headers |-> bearer_headers(tok),
     params |-> [name |-> game_name]]

\* (mutant) the last match is returned in place of the first
get_game_id_result_last(resp) ==
    IF resp.status_code = 200
    THEN LET games == Get(resp.json, "data", << >>)
         IN  IF Len(games) > 0
             THEN JSONResponse([game_id |-> games[Len(games)].id])
             ELSE HTTPException(404, "Game not found")
    ELSE HTTPException(resp.status_code,
                       "Error while getting game ID from Twitch")

\* what the handler makes of the answer of the games endpoint
get_game_id_result(resp) ==
    IF resp.status_code = 200
    THEN LET games == Get(resp.json, "data", << >>)
         IN  IF Len(games) > 0
             THEN JSONResponse([game_id |-> games[1].id])
             ELSE HTTPException(404, "Game not found")
    ELSE HTTPException(resp.status_code,
                       "Error while getting game ID from Twitch")

get_game_id_body(r, resp) ==
    /\ pc[r] = "get_game_id"
    /\ IF token[r] = NoToken
       THEN /\ Respond(r, InternalServerError)
            /\ UNCHANGED << sent, received >>
       ELSE /\ sent' = [sent EXCEPT ![r] =
                  Append(@, games_request(token[r],
                                          request[r].query.game_name))]
            /\ received' = [received EXCEPT ![r] = resp]
            /\ Respond(r, get_game_id_result(resp))
    /\ UNCHANGED << tokens_collection, request, token >>

(* ----------------------- GET /api/search-videos ------------------------ *)
search_videos_get_token(r, query) ==
    /\ pc[r] = "idle"
    /\ request' = [request EXCEPT
                     ![r] = [route |-> "/api/search-videos", query |-> query]]
    /\ token' = [token EXCEPT ![r] = get_token(tokens_collection)]
    /\ pc' = [pc EXCEPT ![r] = "search_videos"]
    /\ UNCHANGED << tokens_collection, sent, received, response >>

\* (mutant) the cursor is never forwarded
videos_params_no_after(query) ==
    [game_id |-> query.game_id, first |-> Get(query, "first", 10)]

\* the query parameters of the outbound call
videos_params(query) ==
    LET game_id == query.game_id
        first == Get(query, "first", 10)
        after == Get(query, "after", None)
        params == [game_id |-> game_id, first |-> first]
    IN  IF Truthy(after) THEN SetKey(params, "after", after) ELSE params

videos_request(tok, query) ==
    [method |-> "GET",
     url |-> "https://api.twitch.tv/helix/videos",
     headers |-> bearer_headers(tok),
     params |-> videos_params(query)]

search_videos_result(resp) ==
    IF resp.status_code = 200
    THEN JSONResponse([videos |-> Get(resp.json, "data", << >>),
                       pagination |-> Get(resp.json, "pagination", EmptyDict)])
    ELSE HTTPException(resp.status_code,
                       "Error while getting videos from Twitch")

search_videos_body(r, resp) ==
    /\ pc[r] = "search_videos"
    /\ IF token[r] = NoToken
       THEN /\ Respond(r, InternalServerError)
            /\ UNCHANGED << sent, received >>
       ELSE /\ sent' = [sent EXCEPT ![r] =
                  Append(@, videos_request(token[r], request[r].query))]
            /\ received' = [received EXCEPT ![r] = resp]
            /\ Respond(r, search_videos_result(resp))
    /\ UNCHANGED << tokens_collection, request, token >>

(* ------------------------- end of a request ---------------------------- *)
\* the response is sent and the locals of the handler are gone
Finish(r) ==
    /\ pc[r] = "done"
    /\ pc' = [pc EXCEPT ![r] = "idle"]
    /\ request' = [request EXCEPT ![r] = << >>]
    /\ token' = [token EXCEPT ![r] = NoToken]
    /\ sent' = [sent EXCEPT ![r] = << >>]
    /\ received' = [received EXCEPT ![r] = << >>]
    /\ response' = [response EXCEPT ![r] = << >>]
    /\ UNCHANGED tokens_collection

(* --------------------- what the environment may do --------------------- *)
\* query strings of /callback: no code, an empty code, a code
CallbackQueries == { EmptyDict, [code |-> ""], [code |-> "c0de"] }

\* answers of the token endpoint: two grants (the second without a refresh
\* token), a rejection with a description, one without, an empty token
Grant1 == [access_token |-> "at1", refresh_token |-> "rt1"]
Grant2 == [access_token |-> "at2"]
Rejected == [status |-> 400, error_description |-> "Invalid code"]
RejectedBare == [status |-> 400]
EmptyGrant == [access_token |-> "", refresh_token |-> "rt1"]
TokenAnswers == { Grant1, Grant2, Rejected, RejectedBare, EmptyGrant }

\* query strings that pass the validation of the handler's parameters
GameQueries == { [game_name |-> "tetris"] }

VideoQueries ==
    { [game_id |-> "7"],
      [game_id |-> "7", first |-> 5],
      [game_id |-> "7", after |-> "cur1"],
      [game_id |-> "7", first |-> 5, after |-> "cur1"],
      [game_id |-> "7", after |-> ""],
      [game_id |-> "7", first |-> 5, after |-> ""] }

\* answers of the resource API
GameIds == { "g1", "g2" }
RECURSIVE GameLists(_)
GameLists(n) ==
    IF n = 0 THEN { << >> }
    ELSE GameLists(n - 1) \cup
         { Append(l, [id |-> g]) :
             l \in { m \in GameLists(n - 1) : Len(m) = n - 1 }, g \in GameIds }

UpstreamErrors ==
    { [status_code |-> s, json |-> [message |-> "upstream"]] :
        s \in { 201, 401, 500 } }

GamesAnswers ==
    { [status_code |-> 200, json |-> [data |-> l]] : l \in GameLists(MaxGames) }
    \cup { [status_code |-> 200, json |-> EmptyDict] }
    \cup UpstreamErrors

VideosAnswers ==
    { [status_code |-> 200,
       json |-> [data |-> << [id |-> "v1"], [id |-> "v2"] >>,
                 pagination |-> [cursor |-> "cur2"]]],
      [status_code |-> 200, json |-> [data |-> << >>, pagination |-> EmptyDict]],
      [status_code |-> 200, json |-> EmptyDict] }
    \cup UpstreamErrors

(* ---------------------------- specifications --------------------------- *)
\* the answers of the resource API that Spec draws from: one per outcome
\* of a proxy handler (SpecSeq draws from all of them)
SomeGamesAnswers ==
    { a \in GamesAnswers :
        a.status_code = 200 => a.json = [data |-> << [id |-> "g1"] >>] }

SomeVideosAnswers ==
    { a \in VideosAnswers : a.status_code = 200 => a.json = EmptyDict }

\* Spec: up to MaxReqs requests in flight, their steps interleaved
Next ==
    \E r \in Reqs :
        \/ home(r)
        \/ login(r)
        \/ \E query \in CallbackQueries : callback_get_token(r, query)
        \/ \E token_json \in TokenAnswers : callback_exchange(r, token_json)
        \/ callback_save(r)
        \/ \E query \in GameQueries : get_game_id_get_token(r, query)
        \/ \E resp \in SomeGamesAnswers : get_game_id_body(r, resp)
        \/ \E query \in { [game_id |-> "7"] } :
               search_videos_get_token(r, query)
        \/ \E resp \in SomeVideosAnswers : search_videos_body(r, resp)
        \/ Finish(r)

Spec == Init /\ [][Next]_vars

\* SpecSeq: one request at a time, every input and every upstream answer
NextSeq ==
    \/ home(1)
    \/ login(1)
    \/ \E query \in CallbackQueries : callback_get_token(1, query)
    \/ \E token_json \in TokenAnswers : callback_exchange(1, token_json)
    \/ callback_save(1)
    \/ \E query \in GameQueries : get_game_id_get_token(1, query)
    \/ \E resp \in GamesAnswers : get_game_id_body(1, resp)
    \/ \E query \in VideoQueries : search_videos_get_token(1, query)
    \/ \E resp \in VideosAnswers : search_videos_body(1, resp)
    \/ Finish(1)

SpecSeq == Init /\ [][NextSeq]_vars

(* ============================== properties ============================= *)
\* request r has been answered on the given route
Answered(r, route) == pc[r] = "done" /\ request[r].route = route

\* request r has been answered by one of the two proxy endpoints
AnsweredProxy(r) ==
    Answered(r, "/api/get-game-id") \/ Answered(r, "/api/search-videos")

\* the code of a /callback query is missing or empty
NoCode(query) == "code" \notin DOMAIN query \/ query.code = ""

\* a token endpoint answer carries a non-empty access token
HasAccessToken(json) ==
    "access_token" \in DOMAIN json /\ json.access_token # ""

\* the pair (access_token, refresh_token) of an exchange, refresh_token
\* None when the exchange returned none
Pair(json) ==
    [access_token |-> json.access_token,
     refresh_token |-> IF "refresh_token" \in DOMAIN json
                       THEN json.refresh_token ELSE None]

\* the step of r that applies the save of /callback
SaveStep(r) == pc[r] = "save" /\ pc'[r] = "done"

(* C1: a proxy request handled while the store holds no record is answered  *)
(* with an unauthenticated error (400 or 401) and issues no outbound        *)
(* request. The code answers 500: see C1_NoOutboundWithoutToken for the     *)
(* part that holds.                                                         *)
C1_UnauthenticatedError ==
    \A r \in Reqs :
        (AnsweredProxy(r) /\ token[r] = NoToken) =>
            /\ response[r].status_code \in { 400, 401 }
            /\ sent[r] = << >>

\* the part of C1 the code keeps: no outbound request without a token
C1_NoOutboundWithoutToken ==
    \A r \in Reqs :
        (AnsweredProxy(r) /\ token[r] = NoToken) => sent[r] = << >>

(* C2: in every reachable state, whatever the interleaving of concurrent    *)
(* /callback requests, the token store holds at most one record.            *)
C2_SingleRecord == Len(tokens_collection) <= 1

\* two callbacks that both read the empty store have both saved
C2_Witness ==
    \E r1, r2 \in Reqs :
        /\ r1 # r2
        /\ Answered(r1, "/callback") /\ Answered(r2, "/callback")
        /\ response[r1].status_code = 307 /\ response[r2].status_code = 307
        /\ token[r1] = NoToken /\ token[r2] = NoToken
        /\ received[r1] # received[r2]
        /\ Len(tokens_collection) = 1

(* C3: a /callback whose exchange returned an access token answers with a   *)
(* redirect to the frontend origin, and its save leaves the single record   *)
(* equal to the pair of that exchange (refresh_token None when the exchange *)
(* returned none), so the record is always the complete pair of the save    *)
(* applied last; a proxy request reads that record and sends its access     *)
(* token as the bearer.                                                     *)
C3_SaveStep(r) ==
    SaveStep(r) =>
        /\ HasAccessToken(received[r])
        /\ tokens_collection' = << Pair(received[r]) >>
        /\ response'[r].status_code \in 300..399
        /\ response'[r].body = [location |-> FRONTEND_URL]

C3_ProxyReads(r) ==
    (pc[r] = "idle" /\ pc'[r] \in { "get_game_id", "search_videos" }) =>
        IF tokens_collection = << >>
        THEN token'[r] = NoToken
        ELSE token'[r] = tokens_collection[1]

C3_ProxySends(r) ==
    (pc[r] \in { "get_game_id", "search_videos" } /\ sent'[r] # << >>) =>
        sent'[r][1].headers.Authorization
            = "Bearer " \o token[r].access_token

\* the record is the pair of one exchange, never fields of two
C3_NeverAMix ==
    tokens_collection # << >> =>
        \E json \in { a \in TokenAnswers : HasAccessToken(a) } :
            tokens_collection = << Pair(json) >>

C3_LastWriteWins ==
    /\ []C3_NeverAMix
    /\ [][\A r \in Reqs :
            C3_SaveStep(r) /\ C3_ProxyReads(r) /\ C3_ProxySends(r)]_vars

\* a callback without a refresh token was saved over one that had one
C3_Witness ==
    \E r1, r2 \in Reqs :
        /\ Answered(r1, "/callback") /\ Answered(r2, "/callback")
        /\ response[r1].status_code = 307 /\ response[r2].status_code = 307
        /\ received[r1] = Grant1 /\ received[r2] = Grant2
        /\ tokens_collection
             = << [access_token |-> "at2", refresh_token |-> None] >>

(* C4: a /callback without a code, or with an empty one, ends with status   *)
(* 400, writes nothing to the token store and sends nothing to the token    *)
(* endpoint.                                                                *)
C4_Step(r) ==
    (pc[r] = "callback" /\ NoCode(request[r].query) /\ pc'[r] # pc[r]) =>
        /\ pc'[r] = "done"
        /\ response'[r].status_code = 400
        /\ sent'[r] = << >>
        /\ tokens_collection' = tokens_collection

C4_Arrival(r) ==
    (pc[r] = "idle" /\ pc'[r] = "callback") =>
        tokens_collection' = tokens_collection

C4_NoCode == [][\A r \in Reqs : C4_Step(r) /\ C4_Arrival(r)]_vars

\* an empty code was refused while a record was in the store
C4_Witness ==
    \E r \in Reqs :
        /\ Answered(r, "/callback")
        /\ request[r].query = [code |-> ""]
        /\ response[r].status_code = 400
        /\ tokens_collection # << >>

(* C5: a /callback whose exchange answer has no access token, or an empty   *)
(* one, ends with status 400; the message carries the error_description of  *)
(* the answer when it has one and the fixed fallback when it has none.      *)
C5_ExchangeFailure ==
    \A r \in Reqs :
        (Answered(r, "/callback") /\ sent[r] # << >>
            /\ ~HasAccessToken(received[r])) =>
            /\ response[r].status_code = 400
            /\ response[r].body.detail =
                  "Failed to obtain access token: " \o
                  ( IF "error_description" \in DOMAIN received[r]
                    THEN received[r].error_description
                    ELSE "No error description provided" )

\* a rejection with a description has been answered
C5_Witness ==
    \E r \in Reqs :
        /\ Answered(r, "/callback")
        /\ received[r] = Rejected
        /\ response[r].body.detail
             = "Failed to obtain access token: Invalid code"

(* C6: with a token on record, a proxy endpoint answers an upstream non-2xx *)
(* status S with status S, and every upstream 2xx status with its success   *)
(* envelope (for get-game-id: the envelope, or 404 on an empty list).       *)
C6_Success(r) ==
    \/ /\ request[r].route = "/api/get-game-id"
       /\ \/ /\ response[r].status_code = 200
             /\ DOMAIN response[r].body = { "game_id" }
          \/ response[r].status_code = 404
    \/ /\ request[r].route = "/api/search-videos"
       /\ response[r].status_code = 200
       /\ DOMAIN response[r].body = { "videos", "pagination" }

C6_UpstreamStatus ==
    \A r \in Reqs :
        (AnsweredProxy(r) /\ sent[r] # << >>) =>
            IF received[r].status_code \in 200..299
            THEN C6_Success(r)
            ELSE response[r].status_code = received[r].status_code

(* C7: every failure an endpoint reports has a non-2xx status and a         *)
(* message, and ends the request after at most one outbound call.           *)
Failure(r) ==
    /\ pc[r] = "done"
    /\ DOMAIN response[r].body \in { { "detail" }, { "text" } }

C7_FailuresAreErrors ==
    \A r \in Reqs :
        Failure(r) =>
            /\ response[r].status_code \notin 200..299
            /\ \A k \in DOMAIN response[r].body : response[r].body[k] # ""
            /\ Len(sent[r]) <= 1

(* C8: get-game-id, with a token on record and the games endpoint answering *)
(* 200: an empty match list gives 404; a list of one or more entries gives  *)
(* {game_id: id} with id the identifier of the first entry, and nothing     *)
(* else.                                                                    *)
C8_FirstMatch ==
    \A r \in Reqs :
        (Answered(r, "/api/get-game-id") /\ sent[r] # << >>
            /\ received[r].status_code = 200) =>
            LET games == IF "data" \in DOMAIN received[r].json
                         THEN received[r].json.data ELSE << >>
            IN  IF games = << >>
                THEN response[r].status_code = 404
                ELSE /\ response[r].status_code = 200
                     /\ response[r].body = [game_id |-> Head(games).id]

\* two matches, the answer names the first
C8_Witness ==
    \E r \in Reqs :
        /\ Answered(r, "/api/get-game-id")
        /\ sent[r] # << >>
        /\ received[r].status_code = 200
        /\ received[r].json = [data |-> << [id |-> "g2"], [id |-> "g1"] >>]
        /\ response[r].body = [game_id |-> "g2"]

(* C9: search-videos forwards game_id as given, first as given (10 when not *)
(* given) and after=<cursor> whenever the caller supplied an after cursor,  *)
(* omitting it only when the caller supplied none; when the videos endpoint *)
(* answers 200 the envelope holds its videos and pagination unchanged.      *)
C9_Params(r) ==
    LET query == request[r].query
        params == sent[r][1].params
    IN  /\ params.game_id = query.game_id
        /\ params.first = ( IF "first" \in DOMAIN query
                            THEN query.first ELSE 10 )

C9_Envelope(r) ==
    received[r].status_code = 200 =>
        LET json == received[r].json
        IN  /\ response[r].status_code = 200
            /\ response[r].body.videos =
                  ( IF "data" \in DOMAIN json THEN json.data ELSE << >> )
            /\ response[r].body.pagination =
                  ( IF "pagination" \in DOMAIN json
                    THEN json.pagination ELSE << >> )

C9_AfterWheneverSupplied ==
    \A r \in Reqs :
        (Answered(r, "/api/search-videos") /\ sent[r] # << >>) =>
            LET query == request[r].query
                params == sent[r][1].params
            IN  /\ C9_Params(r)
                /\ "after" \in DOMAIN params <=> "after" \in DOMAIN query
                /\ "after" \in DOMAIN query => params.after = query.after
                /\ C9_Envelope(r)

(* C9 as amended: after=<cursor> is forwarded whenever the caller supplied  *)
(* a non-empty cursor and omitted when the caller supplied none or an empty *)
(* one; the rest as stated.                                                 *)
C9_AfterWhenNonEmpty ==
    \A r \in Reqs :
        (Answered(r, "/api/search-videos") /\ sent[r] # << >>) =>
            LET query == request[r].query
                params == sent[r][1].params
                supplied == "after" \in DOMAIN query /\ query.after # ""
            IN  /\ C9_Params(r)
                /\ "after" \in DOMAIN params <=> supplied
                /\ supplied => params.after = query.after
                /\ C9_Envelope(r)

\* a page of five after a cursor, answered with videos and a next cursor
C9_Witness ==
    \E r \in Reqs :
        /\ Answered(r, "/api/search-videos")
        /\ request[r].query = [game_id |-> "7", first |-> 5, after |-> "cur1"]
        /\ sent[r] # << >>
        /\ sent[r][1].params = [game_id |-> "7", first |-> 5, after |-> "cur1"]
        /\ response[r].status_code = 200
        /\ response[r].body.pagination = [cursor |-> "cur2"]

(* C10: the token store changes only in the save step of a /callback whose  *)
(* exchange returned an access token; every other step of every request     *)
(* leaves it as it is, and a record, once there, is never removed.          *)
C10_Step ==
    /\ tokens_collection' # tokens_collection =>
          \E r \in Reqs :
              /\ SaveStep(r)
              /\ request[r].route = "/callback"
              /\ HasAccessToken(received[r])
    /\ tokens_collection # << >> => tokens_collection' # << >>

C10_OnlySaveWrites == [][C10_Step]_vars

\* a re-login was rejected and the record stored before is still there
C10_Witness ==
    \E r \in Reqs :
        /\ Answered(r, "/callback")
        /\ sent[r] # << >>
        /\ response[r].status_code = 400
        /\ token[r] # NoToken
        /\ tokens_collection = << token[r] >>

====
